---- MODULE Spec2Model ----
(***************************************************************************)
(* A model of the EEG annotator: the lazy-loading window streamer with its *)
(* LRU window cache (src/src/core/data_streamer.py), the montage catalog   *)
(* (src/src/core/montage_manager.py) and the annotation load/save logic of *)
(* the main window (src/src/views/main_window.py, plot_widget.py).         *)
(*                                                                         *)
(* Time is modelled in whole seconds and recordings are sampled at 1 Hz,   *)
(* so a window [tmin, tmax] holds the samples tmin, tmin+1, ..., tmax.     *)
(* Python's None is the string "None"; an unset filter cutoff is 0.        *)
(***************************************************************************)
EXTENDS Integers, Sequences, FiniteSets, TLC

VARIABLES
    filename,       \* EEGDataStreamer.filename
    raw_handle,     \* EEGDataStreamer.raw_handle: "None" or the file it reads
    metadata,       \* EEGDataStreamer.metadata
    window_cache,   \* EEGDataStreamer.window_cache: the OrderedDict as a
                    \* sequence of [key, data], oldest entry first
    last,           \* what the last call did: its arguments, its result or
                    \* exception, the reads it made, the range it read
    lastAccess,     \* observer: for each cached key, the rank of its most
                    \* recent access (insertion or hit); larger is more recent
    firstIn,        \* observer: the key inserted first since the cache was
                    \* last empty, while it is cached; then NoKey
    history,        \* observer: the keys requested since the file was opened
    calls,          \* observer: the number of get_window calls made
    rows,           \* the rows of an annotation file (df.to_dict(orient="records"))
    merged_annotations,  \* load_annotations: the consolidated annotations
    csv_rows,       \* save_annotations: the rows written
    phase,          \* "input", then "loaded", then "saved"
    annotator_filename,  \* EEGAnnotator.filename
    state_montage,  \* AppState._montage
    state_filter,   \* AppState._filter
    current_montage,     \* EEGPlotWidget.current_montage
    current_filter,      \* EEGPlotWidget.current_filter
    montage_list,   \* EEGPlotWidget.montage_list
    signal_duration,     \* EEGPlotWidget.signal_duration
    window_duration,     \* EEGPlotWidget.window_duration
    view_x,         \* plot_widget.viewRange()[0]
    view_y,         \* plot_widget.viewRange()[1], in units of scale_factor
    last_view_range,     \* EEGPlotWidget._last_view_range, <<>> while unset
    annotation_items,    \* the data of EEGPlotWidget.annotation_items
    undo_enabled,   \* the undo button, as set by enable_undo_button
    csv_files,      \* the annotation files on disk: [path, rows]
    origins,        \* observer: per annotation item, the (recording, montage) it is of
    open_handles,   \* observer: the files of the mne Raw objects made by
                    \* read_raw_edf and not closed, oldest first
    closes,         \* observer: the close() calls made in a row just now
    pc,             \* get_window taken step by step: the step to take next
    work,           \* get_window taken step by step: its local variables
    app_last,       \* observer: the last handler of the window and the keys
                    \* of the windows the streamer returned to it
    montage_dir,    \* the .yaml files of resources/montages: name -> content
    catalog         \* MontageManager(): its fields and the exception raised

observerVars == <<lastAccess, firstIn, history, calls>>
traceVars == <<open_handles, closes, pc, work, app_last>>
catalogVars == <<montage_dir, catalog>>
rowVars == <<rows, merged_annotations, csv_rows, phase>>
appVars == <<annotator_filename, state_montage, state_filter, current_montage,
             current_filter, montage_list, signal_duration, window_duration,
             view_x, view_y, last_view_range, annotation_items, undo_enabled,
             csv_files, origins>>
vars == <<filename, raw_handle, metadata, window_cache, last,
          lastAccess, firstIn, history, calls,
          rows, merged_annotations, csv_rows, phase,
          annotator_filename, state_montage, state_filter, current_montage,
          current_filter, montage_list, signal_duration, window_duration,
          view_x, view_y, last_view_range, annotation_items, undo_enabled,
          csv_files, origins,
          open_handles, closes, pc, work, app_last,
          montage_dir, catalog>>

---------------------------------------------------------------------------
(* Bounds of the model *)

\* Requested start times range over -1..MaxStart.
MaxStart == 3

\* A behaviour of SpecPipeline makes at most MaxCalls get_window calls.
MaxCalls == 3

\* An annotation file of SpecRows holds at most MaxRows rows.
MaxRows == 3

\* A behaviour of SpecApp creates annotations while fewer than MaxAnnotations exist.
MaxAnnotations == 1

\* A behaviour of SpecApp saves while fewer than MaxFiles annotation files exist.
MaxFiles == 1

(* Program constants *)

MAX_CACHE_SIZE == 5
\* get_window's default buffer_seconds
DefaultBuffer == 2

\* EEGPlotWidget.window_duration as constructed
InitialWindowDuration == 10

None == "None"
NoFilter == <<0, 0>>
NoKey == <<>>

---------------------------------------------------------------------------
(* The environment: EDF files on disk and the montage catalog *)

EdfFiles == {"a.edf", "b.edf", "missing.edf", "corrupt.edf"}

\* Path.exists() in open_edf
Exists(f) == f # "missing.edf"

\* mne.io.read_raw_edf succeeds on these
Readable(f) == f \in {"a.edf", "b.edf"}

\* What mne reports for a readable file: info['sfreq'], times[-1], ch_names
Recording(f) ==
    IF f = "a.edf"
    THEN [sfreq |-> 1, duration |-> 6, ch_names |-> <<"Fp1", "F7", "T3">>]
    ELSE [sfreq |-> 1, duration |-> 2, ch_names |-> <<"Fp1", "F7">>]

ChannelNo(c) ==
    CASE c = "Fp1" -> 1 [] c = "F7" -> 2 [] c = "T3" -> 3 [] OTHER -> 4

\* The sample of channel c of file f at second t
RawSample(f, c, t) == (IF f = "a.edf" THEN 100 ELSE 200) + 10 * ChannelNo(c) + t

\* Montage names are sequences of words: "BIPOLAR DOUBLE BANANA" is
\* <<"BIPOLAR", "DOUBLE", "BANANA">>.
AVERAGE == <<"AVERAGE">>
DOUBLE_BANANA == <<"BIPOLAR", "DOUBLE", "BANANA">>
BIPOLAR_UNKNOWN == <<"BIPOLAR", "UNKNOWN">>

\* MontageManager.montages: name -> the YAML mapping, in declaration order,
\* as a sequence of <<output channel, anode, cathode>>
montages ==
    (DOUBLE_BANANA :> << <<"Fp1-F7", "Fp1", "F7">>, <<"F7-T3", "F7", "T3">> >>)
    @@ (AVERAGE :> <<>>)

\* entry.name.replace('.yaml', '').replace('_', ' ').upper(): the words of
\* the file name in upper case; "_" and " " both end up as " ".
montage_type(name) ==
    LET upper(w) == CASE w \in {"average", "AVERAGE"} -> "AVERAGE"
                      [] w \in {"bipolar", "BIPOLAR"} -> "BIPOLAR"
                      [] w \in {"banana", "BANANA"} -> "BANANA"
    IN  [i \in 1..Len(name.words) |-> upper(name.words[i])]

\* montage_type.replace(' ', '_').lower() + '.yaml'
montage_filename(type) ==
    LET lower(w) == CASE w = "AVERAGE" -> "average"
                      [] w = "BIPOLAR" -> "bipolar"
                      [] w = "BANANA" -> "banana"
    IN  [words |-> [i \in 1..Len(type) |-> lower(type[i])], sep |-> "_"]

\* No catalog has been constructed.
NoCatalog == [built |-> FALSE, exc |-> None, montage_types |-> <<>>, montages |-> <<>>]

\* MontageManager() on the directory dir, os.scandir yielding its files in
\* the order scandir: open() raises FileNotFoundError for a file that is
\* not there.
MontageManager(dir, scandir) ==
    LET montage_types == [i \in 1..Len(scandir) |-> montage_type(scandir[i])]
        types == {montage_types[i] : i \in 1..Len(scandir)}
    IN  IF \E t \in types : montage_filename(t) \notin DOMAIN dir
        THEN [built |-> TRUE, exc |-> "FileNotFoundError",
              montage_types |-> montage_types, montages |-> <<>>]
        ELSE [built |-> TRUE, exc |-> None, montage_types |-> montage_types,
              montages |-> [t \in types |-> dir[montage_filename(t)]]]

---------------------------------------------------------------------------
(* EEGDataStreamer *)

\* self.metadata after __init__ or clear(): the empty dict.  Its fields are
\* what get_duration / get_sfreq / get_channel_names fall back to.
NoMetadata == [sfreq |-> 0, duration |-> 0, n_channels |-> 0, ch_names |-> <<>>]

\* The value of a window that was not produced
NoWindow ==
    [src |-> None, tmin |-> 0, tmax |-> 0, ch_names |-> <<>>, data |-> <<>>,
     filtered |-> NoFilter]

\* The streamer object as a record of its fields
Streamer ==
    [filename |-> filename, raw_handle |-> raw_handle, metadata |-> metadata,
     window_cache |-> window_cache]

\* EEGDataStreamer.__init__
NewStreamer ==
    [filename |-> None, raw_handle |-> None, metadata |-> NoMetadata,
     window_cache |-> <<>>]

\* open_edf: the metadata dict built from the new handle
MetadataOf(f) ==
    [sfreq |-> Recording(f).sfreq, duration |-> Recording(f).duration,
     n_channels |-> Len(Recording(f).ch_names), ch_names |-> Recording(f).ch_names]

\* An open_edf that leaves the cached windows in place.
open_edf_keeps_cache(s, f) ==
    IF ~Exists(f)
    THEN [s |-> [s EXCEPT !.filename = f], exc |-> "FileNotFoundError"]
    ELSE IF ~Readable(f)
    THEN [s |-> [s EXCEPT !.filename = f], exc |-> "RuntimeError"]
    ELSE [s |-> [s EXCEPT !.filename = f, !.raw_handle = f, !.metadata = MetadataOf(f)],
          exc |-> None]

\* open_edf(filename): the new streamer and the exception raised, if any
open_edf(s, f) ==
    LET named == [s EXCEPT !.filename = f]
    IN  IF ~Exists(f)
        THEN [s |-> named, exc |-> "FileNotFoundError"]
        ELSE IF ~Readable(f)
        THEN [s |-> named, exc |-> "RuntimeError"]
        ELSE [s |-> [named EXCEPT !.raw_handle = f,
                                  !.metadata = MetadataOf(f),
                                  !.window_cache = <<>>],
              exc |-> None]

\* cache_key = (start_time, duration, montage, tuple(filter_params))
cache_key(start_time, duration, montage, filter_params) ==
    <<start_time, duration, montage, filter_params>>

\* the keys of the OrderedDict, oldest first
Keys(cache) == [i \in 1..Len(cache) |-> cache[i].key]

KeySet(cache) == {cache[i].key : i \in 1..Len(cache)}

\* cache_key in self.window_cache
Contains(cache, k) == k \in KeySet(cache)

\* The oldest entry taken for the entry of the key.
Lookup_oldest(cache, k) == cache[1].data

\* self.window_cache[cache_key]
Lookup(cache, k) == cache[CHOOSE i \in 1..Len(cache) : cache[i].key = k].data

\* a hit that leaves the order of the entries as it was
move_to_end_skipped(cache, k) == cache

\* a hit that moves the entry to the end and empties its window
move_to_end_emptied(cache, k) ==
    SelectSeq(cache, LAMBDA e : e.key # k) \o <<[key |-> k, data |-> NoWindow]>>

\* OrderedDict.move_to_end(cache_key)
move_to_end(cache, k) ==
    IF Contains(cache, k)
    THEN SelectSeq(cache, LAMBDA e : e.key # k) \o <<[key |-> k, data |-> Lookup(cache, k)]>>
    ELSE cache

\* self.window_cache[cache_key] = window_data: a new key goes to the end, an
\* existing key keeps its place
set_item(cache, k, v) ==
    IF Contains(cache, k)
    THEN [i \in 1..Len(cache) |->
            IF cache[i].key = k THEN [key |-> k, data |-> v] ELSE cache[i]]
    ELSE Append(cache, [key |-> k, data |-> v])

\* the newest entry taken for the oldest
removed_key_newest(cache) ==
    IF Len(cache) > MAX_CACHE_SIZE THEN cache[Len(cache)].key ELSE NoKey

\* removed_key = next(iter(self.window_cache)) when the cache exceeds the limit
removed_key(cache) ==
    IF Len(cache) > MAX_CACHE_SIZE THEN cache[1].key ELSE NoKey

\* an insert that never evicts
evict_nothing(cache) == cache

\* if len(self.window_cache) > MAX_CACHE_SIZE: del self.window_cache[removed_key]
evict_oldest(cache) ==
    IF Len(cache) > MAX_CACHE_SIZE
    THEN SelectSeq(cache, LAMBDA e : e.key # removed_key(cache))
    ELSE cache

Max(a, b) == IF a >= b THEN a ELSE b
Min(a, b) == IF a <= b THEN a ELSE b

\* tmin = max(0, start_time)
window_tmin(start_time) == Max(0, start_time)

\* tmax = min(self.metadata['duration'], start_time + duration + buffer_seconds)
window_tmax(meta, start_time, duration, buffer) ==
    Min(meta.duration, start_time + duration + buffer)

\* mne's Raw.crop accepts a range only within the recording
crop_accepts(f, tmin, tmax) ==
    /\ 0 <= tmin
    /\ tmin <= tmax
    /\ tmax <= Recording(f).duration

\* raw_handle.copy().crop(tmin, tmax).load_data(): the samples tmin..tmax of
\* every channel of the open file
read_range(f, tmin, tmax) ==
    LET names == Recording(f).ch_names
    IN  [src |-> f, tmin |-> tmin, tmax |-> tmax, ch_names |-> names,
         data |-> [i \in 1..Len(names) |->
                     [j \in 1..(tmax - tmin + 1) |-> RawSample(f, names[i], tmin + j - 1)]],
         filtered |-> NoFilter]

\* montage.startswith('BIPOLAR')
startswith_BIPOLAR(montage) == Len(montage) >= 1 /\ montage[1] = "BIPOLAR"

\* MontageManager.get_montage raises KeyError for a name it does not hold
get_montage_raises(montage) == montage \notin DOMAIN montages

IndexOf(names, c) == CHOOSE i \in 1..Len(names) : names[i] = c

InSeq(names, c) == \E i \in 1..Len(names) : names[i] = c

\* mne.set_bipolar_reference raises ValueError when an anode or a cathode is
\* not a channel of the data
bipolar_raises(raw, config) ==
    \E i \in 1..Len(config) :
        ~InSeq(raw.ch_names, config[i][2]) \/ ~InSeq(raw.ch_names, config[i][3])

\* The bipolar channels computed, the channels read kept before them.
set_bipolar_reference_unpicked(raw, config) ==
    [raw EXCEPT
        !.ch_names = @ \o [i \in 1..Len(config) |-> config[i][1]],
        !.data = @ \o [i \in 1..Len(config) |->
                    [j \in 1..(raw.tmax - raw.tmin + 1) |->
                        raw.data[IndexOf(raw.ch_names, config[i][2])][j]
                        - raw.data[IndexOf(raw.ch_names, config[i][3])][j]]]]

\* mne.set_bipolar_reference(anode, cathode, ch_name, drop_refs=True) followed
\* by raw.pick(ch_name): the declared channels, each anode minus cathode
set_bipolar_reference(raw, config) ==
    [raw EXCEPT
        !.ch_names = [i \in 1..Len(config) |-> config[i][1]],
        !.data = [i \in 1..Len(config) |->
                    [j \in 1..(raw.tmax - raw.tmin + 1) |->
                        raw.data[IndexOf(raw.ch_names, config[i][2])][j]
                        - raw.data[IndexOf(raw.ch_names, config[i][3])][j]]]]

\* The catalog consulted for every montage name, bipolar or not.
apply_montage_looked_up(raw, montage) ==
    IF get_montage_raises(montage)
    THEN [raw |-> raw, exc |-> None, log |-> {"error"}]
    ELSE [raw |-> set_bipolar_reference(raw, montages[montage]), exc |-> None, log |-> {}]

\* The data returned as read, whatever the montage.
apply_montage_unreferenced(raw, montage) == [raw |-> raw, exc |-> None, log |-> {}]

\* _apply_montage(raw, montage): the data returned, the exception that leaves
\* it (None when it returns) and the log records it writes
apply_montage(raw, montage) ==
    IF startswith_BIPOLAR(montage)
    THEN IF get_montage_raises(montage)
         THEN \* except KeyError: logged, the data is returned unmodified
              [raw |-> raw, exc |-> None, log |-> {"error"}]
         ELSE IF bipolar_raises(raw, montages[montage])
         THEN [raw |-> raw, exc |-> "ValueError", log |-> {}]
         ELSE [raw |-> set_bipolar_reference(raw, montages[montage]),
               exc |-> None, log |-> {}]
    ELSE [raw |-> raw, exc |-> None, log |-> {}]

\* l_freq is not None or h_freq is not None
filter_requested(filter_params) == filter_params[1] # 0 \/ filter_params[2] # 0

\* A filter that raises after it has changed the data.
apply_filter_in_place(raw, filter_params, filter_raises) ==
    IF filter_requested(filter_params)
    THEN [raw |-> [raw EXCEPT !.filtered = filter_params],
          log |-> IF filter_raises THEN {"warning"} ELSE {}]
    ELSE [raw |-> raw, log |-> {}]

\* A filter that raises is passed over without a log record.
apply_filter_unlogged(raw, filter_params, filter_raises) ==
    IF filter_requested(filter_params) /\ ~filter_raises
    THEN [raw |-> [raw EXCEPT !.filtered = filter_params], log |-> {}]
    ELSE [raw |-> raw, log |-> {}]

\* The filter invoked whatever the cutoffs are.
apply_filter_unconditional(raw, filter_params, filter_raises) ==
    IF filter_raises
    THEN [raw |-> raw, log |-> {"warning"}]
    ELSE [raw |-> [raw EXCEPT !.filtered = filter_params], log |-> {}]

\* _apply_filter(raw, filter_params); filter_raises says whether mne's
\* raw.filter raises on this window
apply_filter(raw, filter_params, filter_raises) ==
    IF filter_requested(filter_params)
    THEN IF filter_raises
         THEN [raw |-> raw, log |-> {"warning"}]
         ELSE [raw |-> [raw EXCEPT !.filtered = filter_params], log |-> {}]
    ELSE [raw |-> raw, log |-> {}]

\* a miss whose window is returned but not stored
cache_insert_dropped(cache, k, window_data) == cache

\* the cache after a miss produced window_data: insert, then evict
cache_insert(cache, k, window_data) == evict_oldest(set_item(cache, k, window_data))

\* An exception of the miss path caught and no window returned.
exception_swallowed(s, reads, tmin, tmax, log, stage) ==
    [s |-> s, ret |-> NoWindow, exc |-> None, outcome |-> "error",
     reads |-> reads, tmin |-> tmin, tmax |-> tmax, evicted |-> NoKey,
     log |-> log, stage |-> stage, filter_raised |-> FALSE]

\* except Exception as e: raise RuntimeError(...), whatever stage raised e;
\* the streamer is as it was before the call.
raise_RuntimeError(s, reads, tmin, tmax, log, stage) ==
    [s |-> s, ret |-> NoWindow, exc |-> "RuntimeError", outcome |-> "error",
     reads |-> reads, tmin |-> tmin, tmax |-> tmax, evicted |-> NoKey,
     log |-> log, stage |-> stage, filter_raised |-> FALSE]

\* get_window(start_time, duration, montage, filter_params, buffer_seconds).
\* read_fails and filter_raises are the environment's part: whether the disk
\* read fails and whether mne's filter raises.  The result names the new
\* streamer, the value returned, the exception raised, the number of reads
\* from the file, the range computed, the key evicted and the stage whose
\* exception ended the call ("read" or "montage"), and whether the filter
\* was invoked and raised.
get_window(s, start_time, duration, montage, filter_params, buffer, read_fails, filter_raises) ==
    LET k == cache_key(start_time, duration, montage, filter_params)
        tmin == window_tmin(start_time)
        tmax == window_tmax(s.metadata, start_time, duration, buffer)
        failed(reads, log, stage) == raise_RuntimeError(s, reads, tmin, tmax, log, stage)
        cached(m, f) ==
            [s |-> [s EXCEPT !.window_cache = cache_insert(s.window_cache, k, f.raw)],
             ret |-> f.raw, exc |-> None, outcome |-> "miss",
             reads |-> 1, tmin |-> tmin, tmax |-> tmax,
             evicted |-> removed_key(set_item(s.window_cache, k, f.raw)),
             log |-> m.log \cup f.log, stage |-> None,
             filter_raised |-> filter_requested(filter_params) /\ filter_raises]
        transformed(m) ==
            IF m.exc # None
            THEN failed(1, m.log, "montage")
            ELSE cached(m, apply_filter(m.raw, filter_params, filter_raises))
    IN  IF s.raw_handle = None
        THEN [s |-> s, ret |-> NoWindow, exc |-> "RuntimeError", outcome |-> "closed",
              reads |-> 0, tmin |-> 0, tmax |-> 0, evicted |-> NoKey, log |-> {},
              stage |-> None, filter_raised |-> FALSE]
        ELSE IF Contains(s.window_cache, k)
        THEN [s |-> [s EXCEPT !.window_cache = move_to_end(s.window_cache, k)],
              ret |-> Lookup(s.window_cache, k), exc |-> None, outcome |-> "hit",
              reads |-> 0, tmin |-> 0, tmax |-> 0, evicted |-> NoKey, log |-> {},
              stage |-> None, filter_raised |-> FALSE]
        ELSE IF ~crop_accepts(s.raw_handle, tmin, tmax)
        THEN failed(0, {}, "read")
        ELSE IF read_fails
        THEN failed(1, {}, "read")
        ELSE transformed(apply_montage(read_range(s.raw_handle, tmin, tmax), montage))

\* The statements of the try block with the filter ahead of the montage.
next_statement_filter_first(pc_) ==
    CASE pc_ = "read" -> "filter"
      [] pc_ = "filter" -> "montage"
      [] pc_ = "montage" -> "insert"
      [] pc_ = "insert" -> "idle"

\* The statement that follows statement pc_ of the try block of a miss:
\* crop and load_data (lines 126-127), _apply_montage (130), _apply_filter
\* (133), the insertion with its eviction (136-142), the return (144).
next_statement(pc_) ==
    CASE pc_ = "read" -> "montage"
      [] pc_ = "montage" -> "filter"
      [] pc_ = "filter" -> "insert"
      [] pc_ = "insert" -> "idle"

\* a clear that leaves the entries in place
clear_cache_skipped(s) == s

\* clear_cache()
clear_cache(s) == [s EXCEPT !.window_cache = <<>>]

\* A close that leaves the cached windows in place.
close_keeps_cache(s) == [s EXCEPT !.raw_handle = None, !.metadata = NoMetadata]

\* A close that leaves the metadata of the recording in place.
close_keeps_metadata(s) == [s EXCEPT !.raw_handle = None, !.window_cache = <<>>]

\* close()
close(s) ==
    [s EXCEPT !.raw_handle = None, !.window_cache = <<>>, !.metadata = NoMetadata]

\* mne.io.read_raw_edf(f): one more Raw object, open on f.
read_raw_edf(handles, f) == Append(handles, f)

\* raw_handle.close(): the Raw object the streamer holds, the one made last,
\* is closed.
raw_close(handles) == SubSeq(handles, 1, Len(handles) - 1)

\* The Raw objects open after open_edf(f): read_raw_edf makes one when it
\* succeeds, and open_edf closes none.
open_edf_handles(s, handles, f) ==
    IF open_edf(s, f).exc = None THEN read_raw_edf(handles, f) ELSE handles

\* The Raw objects open after close().
close_handles(s, handles) ==
    IF s.raw_handle # None THEN raw_close(handles) ELSE handles

---------------------------------------------------------------------------
(* Annotation files: one row per (channel, start_time, stop_time, onset) *)

\* The values the rows of a file are drawn from.
RowChannels == {"Fp1", "F7"}
RowStarts == {1, 2}
RowStops == {2, 3}
Onsets == {"BCKG", "SPSW"}

\* One row of the file: a dict of df.to_dict(orient="records").
Row(channel, start_time, stop_time, onset) ==
    [channels |-> channel, start_time |-> start_time,
     stop_time |-> stop_time, onset |-> onset]

\* Python compares the onset strings lexicographically: "BCKG" < "SPSW".
onset_order(onset) == IF onset = "BCKG" THEN 1 ELSE 2

\* The comparison of the sort key (start_time, stop_time, onset), as tuples.
key_less(a, b) ==
    \/ a.start_time < b.start_time
    \/ /\ a.start_time = b.start_time
       /\ a.stop_time < b.stop_time
    \/ /\ a.start_time = b.start_time
       /\ a.stop_time = b.stop_time
       /\ onset_order(a.onset) < onset_order(b.onset)

\* The number of leading elements of a sorted list that sort before r.
RECURSIVE insertion_point_first(_, _)
insertion_point_first(sorted, r) ==
    IF sorted = <<>> \/ ~key_less(Head(sorted), r) THEN 0
    ELSE 1 + insertion_point_first(Tail(sorted), r)

\* The number of leading elements of a sorted list that do not sort after r.
RECURSIVE insertion_point(_, _)
insertion_point(sorted, r) ==
    IF sorted = <<>> \/ key_less(r, Head(sorted)) THEN 0
    ELSE 1 + insertion_point(Tail(sorted), r)

\* The list left unsorted.
sort_skipped(annotations) == annotations

\* list.sort(key=...): ascending and stable (equal keys keep their order).
RECURSIVE sort_annotations(_)
sort_annotations(annotations) ==
    IF annotations = <<>> THEN <<>>
    ELSE LET n == Len(annotations)
             sorted == sort_annotations(SubSeq(annotations, 1, n - 1))
             r == annotations[n]
             at == insertion_point(sorted, r)
         IN SubSeq(sorted, 1, at) \o <<r>> \o SubSeq(sorted, at + 1, Len(sorted))

\* The dict a group of rows starts as: the row with its channel in a list.
current_annotation(ann) ==
    [channels |-> <<ann.channels>>, start_time |-> ann.start_time,
     stop_time |-> ann.stop_time, onset |-> ann.onset]

\* The test that a row joins the current group.
same_annotation(current, ann) ==
    /\ current.start_time = ann.start_time
    /\ current.stop_time = ann.stop_time
    /\ current.onset = ann.onset

\* The loop over annotations[i..]: extend the current group or start another.
RECURSIVE merge_from(_, _, _, _)
merge_from(annotations, i, current, merged) ==
    IF i > Len(annotations) THEN Append(merged, current)
    ELSE IF same_annotation(current, annotations[i])
         THEN merge_from(annotations, i + 1,
                         [current EXCEPT !.channels = Append(@, annotations[i].channels)],
                         merged)
         ELSE merge_from(annotations, i + 1, current_annotation(annotations[i]),
                         Append(merged, current))

\* The loop without the append of the last group after it.
merge_unterminated(annotations) ==
    IF Len(annotations) > 0
    THEN LET merged == merge_from(annotations, 2, current_annotation(annotations[1]), <<>>)
         IN SubSeq(merged, 1, Len(merged) - 1)
    ELSE <<>>

\* Adjacent rows with the same (start_time, stop_time, onset) become one
\* annotation holding their channels in order.
merge_annotations(annotations) ==
    IF Len(annotations) > 0
    THEN merge_from(annotations, 2, current_annotation(annotations[1]), <<>>)
    ELSE <<>>

\* load_annotations from the records of the file to merged_annotations.
consolidate(records) == merge_annotations(sort_annotations(records))

\* The rows of one annotation: one per channel, in order.
annotation_rows(annotation) ==
    [i \in 1..Len(annotation.channels) |->
        Row(annotation.channels[i], annotation.start_time,
            annotation.stop_time, annotation.onset)]

\* save_annotations: the rows of all the annotations, in order.
RECURSIVE expand(_)
expand(annotations) ==
    IF annotations = <<>> THEN <<>>
    ELSE annotation_rows(Head(annotations)) \o expand(Tail(annotations))

---------------------------------------------------------------------------
(* EEGAnnotator (main window) and EEGPlotWidget, around their streamer *)

\* The window, its AppState and its plot widget as one record.
App ==
    [streamer |-> Streamer, filename |-> annotator_filename,
     montage |-> state_montage, filter |-> state_filter,
     current_montage |-> current_montage, current_filter |-> current_filter,
     montage_list |-> montage_list, signal_duration |-> signal_duration,
     window_duration |-> window_duration, view_x |-> view_x, view_y |-> view_y,
     last_view_range |-> last_view_range, annotation_items |-> annotation_items,
     undo_enabled |-> undo_enabled, csv_files |-> csv_files, origins |-> origins,
     fetched |-> {}]

\* EEGAnnotator.__init__, AppState.__init__, EEGPlotWidget.__init__; an empty
\* plot shows the range [0, 1] on both axes, and no annotation file exists.
NewApp ==
    [streamer |-> NewStreamer, filename |-> None,
     montage |-> AVERAGE, filter |-> NoFilter,
     current_montage |-> AVERAGE, current_filter |-> NoFilter,
     montage_list |-> <<>>, signal_duration |-> 0,
     window_duration |-> InitialWindowDuration, view_x |-> <<0, 1>>, view_y |-> <<0, 1>>,
     last_view_range |-> <<>>, annotation_items |-> <<>>,
     undo_enabled |-> FALSE, csv_files |-> {}, origins |-> <<>>,
     fetched |-> {}]

\* The window and the widget are in the state app (the streamer apart).
AppIs(app) ==
    /\ annotator_filename = app.filename
    /\ state_montage = app.montage
    /\ state_filter = app.filter
    /\ current_montage = app.current_montage
    /\ current_filter = app.current_filter
    /\ montage_list = app.montage_list
    /\ signal_duration = app.signal_duration
    /\ window_duration = app.window_duration
    /\ view_x = app.view_x
    /\ view_y = app.view_y
    /\ last_view_range = app.last_view_range
    /\ annotation_items = app.annotation_items
    /\ undo_enabled = app.undo_enabled
    /\ csv_files = app.csv_files
    /\ origins = app.origins

\* update_plot: the window is fetched with the widget's montage and filter;
\* fetched collects the keys of the windows the curves were drawn from.
update_plot(app, start_time, duration) ==
    LET k == cache_key(start_time, duration, app.current_montage, app.current_filter)
        drawn(r) ==
            [app |-> [app EXCEPT !.streamer = r.s,
                                 !.fetched = IF r.exc = None THEN @ \cup {k} ELSE @],
             exc |-> r.exc]
    IN  drawn(get_window(app.streamer, start_time, duration, app.current_montage,
                         app.current_filter, DefaultBuffer, FALSE, FALSE))

\* on_view_range_changed, the slot of sigRangeChanged
on_view_range_changed(app) ==
    LET start_time == Max(0, app.view_x[1])
        duration == Min(app.view_x[2] - app.view_x[1], app.signal_duration - start_time)
    IN  IF duration <= 0 \/ app.last_view_range = <<start_time, duration>>
        THEN app
        ELSE update_plot([app EXCEPT !.last_view_range = <<start_time, duration>>],
                         start_time, duration).app

\* setup_channels: setXRange and setYRange each emit sigRangeChanged when
\* they change the range shown.
setup_channels(app, n_channels) ==
    LET x == <<0, app.window_duration>>
        y == <<-1, n_channels>>
        setYRange(on_x) ==
            IF on_x.view_y = y THEN on_x
            ELSE on_view_range_changed([on_x EXCEPT !.view_y = y])
    IN  setYRange(IF app.view_x = x THEN app
                  ELSE on_view_range_changed([app EXCEPT !.view_x = x]))

\* EEGPlotWidget.load_edf_file; an exception leaves what was assigned before it.
load_edf_file(app, f, montage, filter_params) ==
    LET display(set_up) == update_plot(set_up, 0, set_up.window_duration)
        channels(listed) == display(setup_channels(listed, Len(listed.montage_list)))
        list(opened, initial_window) ==
            IF initial_window.exc # None
            THEN [app |-> [opened EXCEPT !.streamer = initial_window.s],
                  exc |-> initial_window.exc]
            ELSE channels([opened EXCEPT !.streamer = initial_window.s,
                                         !.montage_list = initial_window.ret.ch_names])
        window(opened) ==
            list(opened, get_window(opened.streamer, 0, opened.window_duration, montage,
                                    filter_params, DefaultBuffer, FALSE, FALSE))
        load(o) ==
            IF o.exc # None
            THEN [app |-> [app EXCEPT !.streamer = o.s], exc |-> o.exc]
            ELSE window([app EXCEPT !.streamer = o.s, !.current_montage = montage,
                                    !.current_filter = filter_params,
                                    !.signal_duration = o.s.metadata.duration])
    IN  load(open_edf(app.streamer, f))

\* Path(filename).stem
stem(f) ==
    CASE f = "a.edf" -> "a"
      [] f = "b.edf" -> "b"
      [] f = "missing.edf" -> "missing"
      [] f = "corrupt.edf" -> "corrupt"

\* f"{stem}_{montage.replace(' ', '_')}.csv", as the words between the "_"
annotation_file_path(f, montage) == <<stem(f)>> \o montage

\* render_annotations(annotations): the items are replaced by the annotations
\* that have channels and whose first and last channel are in montage_list.
render_annotations(app, annotations, origin) ==
    LET rendered == SelectSeq(annotations,
                        LAMBDA a : /\ Len(a.channels) > 0
                                   /\ InSeq(app.montage_list, a.channels[1])
                                   /\ InSeq(app.montage_list, a.channels[Len(a.channels)]))
    IN  [app EXCEPT !.annotation_items = rendered,
                    !.origins = [i \in 1..Len(rendered) |-> origin]]

\* EEGAnnotator.load_annotations, with EEGPlotWidget.load_annotations
load_annotations(app) ==
    LET path == annotation_file_path(app.filename, app.montage)
        found == {c \in app.csv_files : c.path = path}
        records == (CHOOSE c \in found : TRUE).rows
        enable_undo(loaded) ==
            [loaded EXCEPT !.undo_enabled = (Len(loaded.annotation_items) > 0) \/ @]
    IN  IF app.filename = None \/ found = {} THEN app
        ELSE enable_undo(render_annotations(app, consolidate(records),
                                            <<app.filename, app.montage>>))

\* EEGAnnotator.open_file, chosen being what the file dialog returns
open_file(app, chosen) ==
    LET loaded(r) == IF r.exc # None THEN r.app ELSE load_annotations(r.app)
    IN  IF chosen = "" THEN app
        ELSE loaded(load_edf_file([app EXCEPT !.filename = chosen], chosen,
                                  app.montage, app.filter))

\* EEGAnnotator.on_settings_changed, the slot of montage_changed and filter_changed
on_settings_changed(app) ==
    LET reloaded(r) == IF r.exc # None THEN r.app ELSE load_annotations(r.app)
    IN  IF app.filename = None THEN app
        ELSE reloaded(load_edf_file([app EXCEPT !.streamer = clear_cache(@)],
                                    app.filename, app.montage, app.filter))

\* AppState.set_montage
set_montage(app, montage) ==
    IF montage # app.montage
    THEN on_settings_changed([app EXCEPT !.montage = montage])
    ELSE app

\* AppState.set_filter
set_filter(app, filter) ==
    IF filter # app.filter
    THEN on_settings_changed([app EXCEPT !.filter = filter])
    ELSE app

\* enable_selection_mode: a "BCKG" annotation over the channels in view, from
\* one to three seconds after the left edge of the view.
enable_selection_mode(app) ==
    LET first_ch == Max(0, app.view_y[1])
        last_ch == Min(Len(app.montage_list) - 1, app.view_y[2])
        annotation_data == [channels |-> SubSeq(app.montage_list, first_ch + 1, last_ch + 1),
                            start_time |-> app.view_x[1] + 1,
                            stop_time |-> app.view_x[1] + 3,
                            onset |-> "BCKG"]
    IN  [app EXCEPT !.annotation_items = Append(@, annotation_data),
                    !.origins = Append(@, <<app.filename, app.montage>>),
                    !.undo_enabled = TRUE]

\* goto_time(time), with _set_x_range_and_update: the range is set with
\* on_view_range_changed held off, then the plot is updated directly.
goto_time(app, time) ==
    LET x_min == Max(0, Min(app.signal_duration - app.window_duration, time))
        x_max == x_min + app.window_duration
        start_time == Max(0, x_min)
        duration == x_max - x_min
    IN  update_plot([app EXCEPT !.view_x = <<x_min, x_max>>,
                                !.last_view_range = <<start_time, duration>>],
                    start_time, duration).app

\* The sequence without its element i.
Remove(seq, i) == SubSeq(seq, 1, i - 1) \o SubSeq(seq, i + 1, Len(seq))

\* An undo that drops the oldest annotation.
undo_annotation_oldest(app) ==
    LET n == Len(app.annotation_items)
    IN  IF n = 0 THEN [app EXCEPT !.undo_enabled = FALSE]
        ELSE [app EXCEPT !.annotation_items = Remove(@, 1),
                         !.origins = Remove(@, 1),
                         !.undo_enabled = (n > 1) /\ @]

\* undo_annotation: the last annotation is dropped.
undo_annotation(app) ==
    LET n == Len(app.annotation_items)
    IN  IF n = 0 THEN [app EXCEPT !.undo_enabled = FALSE]
        ELSE [app EXCEPT !.annotation_items = Remove(@, n),
                         !.origins = Remove(@, n),
                         !.undo_enabled = (n > 1) /\ @]

\* _delete_annotation(annotation_roi), the ROI being item i
delete_annotation(app, i) ==
    [app EXCEPT !.annotation_items = Remove(@, i),
                !.origins = Remove(@, i),
                !.undo_enabled = (Len(app.annotation_items) > 1) /\ @]

\* get_annotations
get_annotations(app) == app.annotation_items

\* EEGAnnotator.save_annotations
save_annotations(app) ==
    LET annotations == get_annotations(app)
        path == annotation_file_path(app.filename, app.montage)
    IN  IF app.filename = None \/ Len(annotations) = 0 THEN app
        ELSE [app EXCEPT !.csv_files = {c \in @ : c.path # path}
                                         \cup {[path |-> path, rows |-> expand(annotations)]}]

---------------------------------------------------------------------------
(* No annotation file is being loaded *)

\* get_window has nothing in hand.
NoWork ==
    [key |-> NoKey, buffer |-> 0, tmin |-> 0, tmax |-> 0, window_data |-> NoWindow,
     done |-> <<>>, log |-> {}, filter_raised |-> FALSE]

\* No handler of the window has run.
NoHandler == [op |-> "init", fetched |-> {}, tick |-> 0]

NoTrace ==
    /\ open_handles = <<>>
    /\ closes = 0
    /\ pc = "idle"
    /\ work = NoWork
    /\ app_last = NoHandler
    /\ montage_dir = <<>>
    /\ catalog = NoCatalog

NoRows ==
    /\ rows = <<>>
    /\ merged_annotations = <<>>
    /\ csv_rows = <<>>
    /\ phase = "idle"

---------------------------------------------------------------------------
(* The calls made on the streamer, as actions *)

SetStreamer(s) ==
    /\ filename' = s.filename
    /\ raw_handle' = s.raw_handle
    /\ metadata' = s.metadata
    /\ window_cache' = s.window_cache

\* The record of a call.  tick flips with every call, so that a call that
\* leaves the streamer as it was is still a step.  repeat: the call repeats
\* the arguments of the successful get_window just before it.  after_clear:
\* 1 when the call asks for a key that the clear_cache just before it
\* dropped, 2 when it repeats such a call that succeeded, else 0.
Call(op, k, r, cleared) ==
    [op |-> op, key |-> k, ret |-> r.ret, exc |-> r.exc, outcome |-> r.outcome,
     reads |-> r.reads, tmin |-> r.tmin, tmax |-> r.tmax, evicted |-> r.evicted,
     log |-> r.log, stage |-> r.stage, filter_raised |-> r.filter_raised,
     cleared |-> cleared,
     repeat |-> /\ op = "get_window" /\ last.op = "get_window"
                /\ last.exc = None /\ last.key = k,
     after_clear |->
        IF op = "get_window" /\ last.op = "clear_cache" /\ k \in last.cleared
        THEN 1
        ELSE IF /\ op = "get_window" /\ last.op = "get_window" /\ last.exc = None
                /\ last.key = k /\ last.after_clear = 1
        THEN 2
        ELSE 0,
     tick |-> 1 - last.tick]

NoReturn(exc) ==
    [ret |-> NoWindow, exc |-> exc, outcome |-> IF exc = None THEN "ok" ELSE "error",
     reads |-> 0, tmin |-> 0, tmax |-> 0, evicted |-> NoKey, log |-> {},
     stage |-> None, filter_raised |-> FALSE]

NoCall ==
    [op |-> "init", key |-> NoKey, ret |-> NoWindow, exc |-> None, outcome |-> "ok",
     reads |-> 0, tmin |-> 0, tmax |-> 0, evicted |-> NoKey, log |-> {},
     stage |-> None, filter_raised |-> FALSE, cleared |-> {}, repeat |-> FALSE, after_clear |-> 0, tick |-> 0]

OpenEdf(f) ==
    LET r == open_edf(Streamer, f)
    IN  /\ SetStreamer(r.s)
        /\ last' = Call("open_edf", NoKey, NoReturn(r.exc), {})

GetWindow(start_time, duration, montage, filter_params, buffer, read_fails, filter_raises) ==
    LET r == get_window(Streamer, start_time, duration, montage, filter_params,
                        buffer, read_fails, filter_raises)
    IN  /\ SetStreamer(r.s)
        /\ last' = Call("get_window",
                        cache_key(start_time, duration, montage, filter_params), r, {})

ClearCache ==
    /\ SetStreamer(clear_cache(Streamer))
    /\ last' = Call("clear_cache", NoKey, NoReturn(None), KeySet(window_cache))

Close ==
    /\ SetStreamer(close(Streamer))
    /\ last' = Call("close", NoKey, NoReturn(None), {})

---------------------------------------------------------------------------
(* The streamer under any sequence of calls *)

StartTimes == -1..MaxStart

Request(t, d, m, f) == [start_time |-> t, duration |-> d, montage |-> m, filter_params |-> f]

\* Panning through a recording with the default settings
PanRequests == {Request(t, 2, AVERAGE, NoFilter) : t \in StartTimes}

\* The requests of Spec: the pans and a bipolar montage the catalog lacks
Requests == PanRequests \cup {Request(0, 2, BIPOLAR_UNKNOWN, NoFilter)}

Init ==
    /\ filename = NewStreamer.filename
    /\ raw_handle = NewStreamer.raw_handle
    /\ metadata = NewStreamer.metadata
    /\ window_cache = NewStreamer.window_cache
    /\ last = NoCall
    /\ lastAccess = {}
    /\ firstIn = NoKey
    /\ history = <<>>
    /\ calls = 0
    /\ NoRows
    /\ NoTrace
    /\ AppIs(NewApp)

Next ==
    \/ \E f \in EdfFiles : OpenEdf(f) /\ UNCHANGED <<observerVars, rowVars, catalogVars, appVars, traceVars>>
    \/ \E q \in Requests :
         /\ GetWindow(q.start_time, q.duration, q.montage, q.filter_params,
                      DefaultBuffer, FALSE, FALSE)
         /\ UNCHANGED <<observerVars, rowVars, catalogVars, appVars, traceVars>>
    \/ ClearCache /\ UNCHANGED <<observerVars, rowVars, catalogVars, appVars, traceVars>>
    \/ Close /\ UNCHANGED <<observerVars, rowVars, catalogVars, appVars, traceVars>>

Spec == Init /\ [][Next]_vars

---------------------------------------------------------------------------
(* Observers of the calls: recency ranks, first insertion, request history *)

Range(seq) == {seq[i] : i \in 1..Len(seq)}

\* lastAccess is a set of [key, rank]; the rank of a key
RankOf(ranks, k) == (CHOOSE e \in ranks : e.key = k).rank

\* ranks 1..n in the order of the ranks given
Normalise(ranks) ==
    {[key |-> e.key, rank |-> Cardinality({d \in ranks : d.rank <= e.rank})] : e \in ranks}

\* the ranks of the keys now cached, after an access of k
Touch(ranks, cache, k) ==
    Normalise({[key |-> x,
                rank |-> IF x = k THEN Cardinality(ranks) + 1 ELSE RankOf(ranks, x)] :
               x \in KeySet(cache)})

\* the observers after the get_window call recorded in last'
TrackAccess ==
    /\ lastAccess' =
         IF last'.outcome \in {"hit", "miss"}
         THEN Touch(lastAccess, window_cache', last'.key)
         ELSE lastAccess
    /\ firstIn' =
         IF last'.outcome = "miss" /\ window_cache = <<>>
         THEN last'.key
         ELSE IF Contains(window_cache', firstIn) THEN firstIn ELSE NoKey

\* the state after a successful open_edf(f) on a new streamer
InitOpen(f) ==
    /\ filename = open_edf(NewStreamer, f).s.filename
    /\ raw_handle = open_edf(NewStreamer, f).s.raw_handle
    /\ metadata = open_edf(NewStreamer, f).s.metadata
    /\ window_cache = open_edf(NewStreamer, f).s.window_cache
    /\ last = [NoCall EXCEPT !.op = "open_edf"]
    /\ lastAccess = {}
    /\ firstIn = NoKey
    /\ history = <<>>
    /\ calls = 0
    /\ NoRows
    /\ NoTrace
    /\ AppIs(NewApp)

(* Paging through an open recording: hits, misses, evictions and clears *)

NextLRU ==
    \/ \E q \in Requests :
         /\ GetWindow(q.start_time, q.duration, q.montage, q.filter_params,
                      DefaultBuffer, FALSE, FALSE)
         /\ TrackAccess
         /\ UNCHANGED <<history, calls, rowVars, catalogVars, appVars, traceVars>>
    \/ /\ ClearCache
       /\ lastAccess' = {}
       /\ firstIn' = NoKey
       /\ UNCHANGED <<history, calls, rowVars, catalogVars, appVars, traceVars>>

SpecLRU == InitOpen("a.edf") /\ [][NextLRU]_vars

(* Requests on pairwise distinct keys, starting from an empty cache *)

DistinctRequests == Requests \cup {Request(0, 2, DOUBLE_BANANA, NoFilter)}

NextDistinct ==
    \E q \in DistinctRequests :
        /\ cache_key(q.start_time, q.duration, q.montage, q.filter_params)
             \notin Range(history)
        /\ GetWindow(q.start_time, q.duration, q.montage, q.filter_params,
                     DefaultBuffer, FALSE, FALSE)
        /\ history' = Append(history, last'.key)
        /\ UNCHANGED <<lastAccess, firstIn, calls, rowVars, catalogVars, appVars, traceVars>>

SpecDistinct == InitOpen("a.edf") /\ [][NextDistinct]_vars

(* The transform pipeline: every montage and filter, with the failures of *)
(* the disk read and of the filter, over a few calls                      *)

BandFilter == <<1, 40>>

PipelineRequests ==
    {Request(t, 2, m, f) : t \in {0, 1},
                           m \in {AVERAGE, DOUBLE_BANANA, BIPOLAR_UNKNOWN},
                           f \in {NoFilter, BandFilter}}

NextPipeline ==
    \/ \E f \in {"a.edf", "b.edf"} : OpenEdf(f) /\ UNCHANGED <<observerVars, rowVars, catalogVars, appVars, traceVars>>
    \/ \E q \in PipelineRequests, read_fails \in BOOLEAN, filter_raises \in BOOLEAN :
         /\ calls < MaxCalls
         /\ GetWindow(q.start_time, q.duration, q.montage, q.filter_params,
                      DefaultBuffer, read_fails, filter_raises)
         /\ calls' = calls + 1
         /\ UNCHANGED <<lastAccess, firstIn, history, rowVars, catalogVars, appVars, traceVars>>
    \/ ClearCache /\ UNCHANGED <<observerVars, rowVars, catalogVars, appVars, traceVars>>
    \/ Close /\ UNCHANGED <<observerVars, rowVars, catalogVars, appVars, traceVars>>

SpecPipeline == Init /\ [][NextPipeline]_vars

---------------------------------------------------------------------------
(* The annotator in use: files opened, montage and filter changed,         *)
(* annotations created and saved                                           *)

\* The handler leaves the window, the widget and the streamer in the state app.
SetApp(app) ==
    /\ SetStreamer(app.streamer)
    /\ annotator_filename' = app.filename
    /\ state_montage' = app.montage
    /\ state_filter' = app.filter
    /\ current_montage' = app.current_montage
    /\ current_filter' = app.current_filter
    /\ montage_list' = app.montage_list
    /\ signal_duration' = app.signal_duration
    /\ window_duration' = app.window_duration
    /\ view_x' = app.view_x
    /\ view_y' = app.view_y
    /\ last_view_range' = app.last_view_range
    /\ annotation_items' = app.annotation_items
    /\ undo_enabled' = app.undo_enabled
    /\ csv_files' = app.csv_files
    /\ origins' = app.origins

\* An annotation file saved earlier for a.edf under the double banana montage.
SavedEarlier ==
    [path |-> annotation_file_path("a.edf", DOUBLE_BANANA),
     rows |-> <<Row("F7-T3", 2, 4, "SPSW"), Row("Fp1-F7", 2, 4, "SPSW")>>]

\* The files the dialog can return, "" when it is cancelled.
Choices == {"", "a.edf", "b.edf", "corrupt.edf"}

\* The window as constructed: the toolbar selects the first montage of the
\* catalog, whichever it is, and an annotation file may exist already.
InitApp ==
    /\ filename = NewStreamer.filename
    /\ raw_handle = NewStreamer.raw_handle
    /\ metadata = NewStreamer.metadata
    /\ window_cache = NewStreamer.window_cache
    /\ last = NoCall
    /\ lastAccess = {}
    /\ firstIn = NoKey
    /\ history = <<>>
    /\ calls = 0
    /\ NoRows
    /\ NoTrace
    /\ \E disk \in {{}, {SavedEarlier}}, montage \in DOMAIN montages :
          AppIs([NewApp EXCEPT !.csv_files = disk, !.montage = montage])

OpenFile(chosen) ==
    /\ SetApp(open_file(App, chosen))
    /\ UNCHANGED <<last, observerVars, rowVars, catalogVars, traceVars>>

SetMontage(montage) ==
    /\ SetApp(set_montage(App, montage))
    /\ UNCHANGED <<last, observerVars, rowVars, catalogVars, traceVars>>

SetFilter(filter) ==
    /\ SetApp(set_filter(App, filter))
    /\ UNCHANGED <<last, observerVars, rowVars, catalogVars, traceVars>>

EnableSelectionMode ==
    /\ Len(annotation_items) < MaxAnnotations
    /\ SetApp(enable_selection_mode(App))
    /\ UNCHANGED <<last, observerVars, rowVars, catalogVars, traceVars>>

SaveAnnotations ==
    /\ Cardinality(csv_files) < MaxFiles
    /\ SetApp(save_annotations(App))
    /\ UNCHANGED <<last, observerVars, rowVars, catalogVars, traceVars>>

NextApp ==
    \/ \E chosen \in Choices : OpenFile(chosen)
    \/ \E montage \in DOMAIN montages : SetMontage(montage)
    \/ \E filter \in {NoFilter, BandFilter} : SetFilter(filter)
    \/ EnableSelectionMode
    \/ SaveAnnotations

SpecApp == InitApp /\ [][NextApp]_vars

---------------------------------------------------------------------------
(* Loading an annotation file and saving what was loaded *)

Rows == {Row(c, t0, t1, o) : c \in RowChannels, t0 \in RowStarts, t1 \in RowStops, o \in Onsets}

\* The files of at most MaxRows rows, in every order, the empty file included.
RowFiles == UNION {[1..n -> Rows] : n \in 0..MaxRows}

InitRows ==
    /\ filename = NewStreamer.filename
    /\ raw_handle = NewStreamer.raw_handle
    /\ metadata = NewStreamer.metadata
    /\ window_cache = NewStreamer.window_cache
    /\ last = NoCall
    /\ lastAccess = {}
    /\ firstIn = NoKey
    /\ history = <<>>
    /\ calls = 0
    /\ rows \in RowFiles
    /\ merged_annotations = <<>>
    /\ csv_rows = <<>>
    /\ phase = "input"
    /\ NoTrace
    /\ AppIs(NewApp)

\* load_annotations on the records read from the file.
ConsolidateRows ==
    /\ phase = "input"
    /\ merged_annotations' = consolidate(rows)
    /\ phase' = "loaded"
    /\ UNCHANGED <<rows, csv_rows>>

\* save_annotations: nothing is written when there is no annotation.
ExpandAnnotations ==
    /\ phase = "loaded"
    /\ IF Len(merged_annotations) = 0
       THEN /\ phase' = "nothing to save"
            /\ UNCHANGED csv_rows
       ELSE /\ phase' = "saved"
            /\ csv_rows' = expand(merged_annotations)
    /\ UNCHANGED <<rows, merged_annotations>>

NextRows ==
    \/ ConsolidateRows /\ UNCHANGED <<filename, raw_handle, metadata, window_cache, last, observerVars, appVars, traceVars, catalogVars>>
    \/ ExpandAnnotations /\ UNCHANGED <<filename, raw_handle, metadata, window_cache, last, observerVars, appVars, traceVars, catalogVars>>

SpecRows == InitRows /\ [][NextRows]_vars

---------------------------------------------------------------------------
(* Opening, reopening and closing recordings *)

\* The Raw objects left open at once and the close() calls made in a row,
\* at most.
MaxOpens == 3
MaxCloses == 2

OpenEdfHandle(f) ==
    /\ Len(open_handles) < MaxOpens
    /\ OpenEdf(f)
    /\ open_handles' = open_edf_handles(Streamer, open_handles, f)
    /\ closes' = 0
    /\ UNCHANGED <<observerVars, rowVars, catalogVars, appVars, pc, work, app_last>>

GetWindowHandle(q) ==
    /\ GetWindow(q.start_time, q.duration, q.montage, q.filter_params,
                 DefaultBuffer, FALSE, FALSE)
    /\ closes' = 0
    /\ UNCHANGED <<observerVars, rowVars, catalogVars, appVars, open_handles, pc, work, app_last>>

CloseHandle ==
    /\ closes < MaxCloses
    /\ Close
    /\ open_handles' = close_handles(Streamer, open_handles)
    /\ closes' = closes + 1
    /\ UNCHANGED <<observerVars, rowVars, catalogVars, appVars, pc, work, app_last>>

NextHandles ==
    \/ \E f \in EdfFiles : OpenEdfHandle(f)
    \/ \E q \in PanRequests : GetWindowHandle(q)
    \/ CloseHandle

SpecHandles == Init /\ [][NextHandles]_vars

---------------------------------------------------------------------------
(* get_window statement by statement.  The streamer is called from one     *)
(* thread: no other call starts before a get_window has returned or raised *)

StepRequests ==
    {Request(0, 2, m, f) : m \in {AVERAGE, <<"LINKED", "EARS">>, DOUBLE_BANANA, BIPOLAR_UNKNOWN},
                           f \in {NoFilter, BandFilter}}

\* The statement has run: window_data is rebound and the next statement is due.
Done(window_data, log) ==
    /\ work' = [work EXCEPT !.window_data = window_data, !.done = Append(@, pc),
                            !.log = @ \cup log]
    /\ pc' = next_statement(pc)
    /\ UNCHANGED <<filename, raw_handle, metadata, window_cache, last>>

\* The statement raised: the except clause of line 146 ends the call.
Raised(reads, log) ==
    /\ pc' = "idle"
    /\ work' = NoWork
    /\ UNCHANGED <<filename, raw_handle, metadata, window_cache>>
    /\ last' = Call("get_window", work.key,
                    raise_RuntimeError(Streamer, reads, work.tmin, work.tmax, log, pc), {})

\* Lines 105-122: no file open, a hit, or the range of a miss.
BeginGetWindow(q, buffer) ==
    LET k == cache_key(q.start_time, q.duration, q.montage, q.filter_params)
    IN  /\ pc = "idle"
        /\ calls < MaxCalls
        /\ calls' = calls + 1
        /\ IF raw_handle = None \/ Contains(window_cache, k)
           THEN /\ GetWindow(q.start_time, q.duration, q.montage, q.filter_params,
                             buffer, FALSE, FALSE)
                /\ UNCHANGED <<pc, work>>
           ELSE /\ pc' = "read"
                /\ work' = [NoWork EXCEPT !.key = k, !.buffer = buffer,
                               !.tmin = window_tmin(q.start_time),
                               !.tmax = window_tmax(metadata, q.start_time, q.duration, buffer)]
                /\ UNCHANGED <<filename, raw_handle, metadata, window_cache, last>>
        /\ UNCHANGED <<lastAccess, firstIn, history, rowVars, catalogVars, appVars, open_handles, closes, app_last>>

\* Lines 126-127
ReadStatement(read_fails) ==
    /\ pc = "read"
    /\ IF ~crop_accepts(raw_handle, work.tmin, work.tmax)
       THEN Raised(0, {})
       ELSE IF read_fails
       THEN Raised(1, {})
       ELSE Done(read_range(raw_handle, work.tmin, work.tmax), {})
    /\ UNCHANGED <<observerVars, rowVars, catalogVars, appVars, open_handles, closes, app_last>>

\* Line 130
MontageStatement ==
    LET m == apply_montage(work.window_data, work.key[3])
    IN  /\ pc = "montage"
        /\ IF m.exc # None THEN Raised(1, m.log) ELSE Done(m.raw, m.log)
        /\ UNCHANGED <<observerVars, rowVars, catalogVars, appVars, open_handles, closes, app_last>>

\* Line 133
FilterStatement(filter_raises) ==
    LET f == apply_filter(work.window_data, work.key[4], filter_raises)
    IN  /\ pc = "filter"
        /\ work' = [work EXCEPT !.window_data = f.raw, !.done = Append(@, pc),
                                !.log = @ \cup f.log,
                                !.filter_raised = filter_requested(work.key[4]) /\ filter_raises]
        /\ pc' = next_statement(pc)
        /\ UNCHANGED <<filename, raw_handle, metadata, window_cache, last>>
        /\ UNCHANGED <<observerVars, rowVars, catalogVars, appVars, open_handles, closes, app_last>>

\* Lines 136-144
InsertStatement ==
    /\ pc = "insert"
    /\ window_cache' = cache_insert(window_cache, work.key, work.window_data)
    /\ last' = Call("get_window", work.key,
                    [ret |-> work.window_data, exc |-> None, outcome |-> "miss",
                     reads |-> 1, tmin |-> work.tmin, tmax |-> work.tmax,
                     evicted |-> removed_key(set_item(window_cache, work.key, work.window_data)),
                     log |-> work.log, stage |-> None,
                     filter_raised |-> work.filter_raised], {})
    /\ pc' = next_statement(pc)
    /\ work' = [work EXCEPT !.done = Append(@, pc)]
    /\ UNCHANGED <<filename, raw_handle, metadata>>
    /\ UNCHANGED <<observerVars, rowVars, catalogVars, appVars, open_handles, closes, app_last>>

NextStatements ==
    \/ \E f \in {"a.edf", "b.edf"} :
         pc = "idle" /\ OpenEdf(f) /\ UNCHANGED <<observerVars, rowVars, catalogVars, appVars, traceVars>>
    \/ \E q \in StepRequests : BeginGetWindow(q, DefaultBuffer)
    \/ \E read_fails \in BOOLEAN : ReadStatement(read_fails)
    \/ MontageStatement
    \/ \E filter_raises \in BOOLEAN : FilterStatement(filter_raises)
    \/ InsertStatement

SpecStatements == Init /\ [][NextStatements]_vars

---------------------------------------------------------------------------
(* Annotating a recording: annotations created, undone, deleted and saved *)

\* The handler op has run and left the window in the state app.
Handler(op, app) == [op |-> op, fetched |-> app.fetched, tick |-> 1 - app_last.tick]

OnOpenFile(chosen) ==
    /\ LET handled(app) == SetApp(app) /\ app_last' = Handler("open_file", app)
       IN  handled(open_file(App, chosen))
    /\ UNCHANGED <<last, observerVars, rowVars, catalogVars, open_handles, closes, pc, work>>

OnEnableSelectionMode ==
    /\ Len(annotation_items) < MaxAnnotations
    /\ SetApp(enable_selection_mode(App))
    /\ app_last' = Handler("enable_selection_mode", App)
    /\ UNCHANGED <<last, observerVars, rowVars, catalogVars, open_handles, closes, pc, work>>

OnUndoAnnotation ==
    /\ SetApp(undo_annotation(App))
    /\ app_last' = Handler("undo_annotation", App)
    /\ UNCHANGED <<last, observerVars, rowVars, catalogVars, open_handles, closes, pc, work>>

OnDeleteAnnotation(i) ==
    /\ SetApp(delete_annotation(App, i))
    /\ app_last' = Handler("_delete_annotation", App)
    /\ UNCHANGED <<last, observerVars, rowVars, catalogVars, open_handles, closes, pc, work>>

OnSaveAnnotations ==
    /\ Cardinality(save_annotations(App).csv_files) <= MaxFiles
    /\ SetApp(save_annotations(App))
    /\ app_last' = Handler("save_annotations", App)
    /\ UNCHANGED <<last, observerVars, rowVars, catalogVars, open_handles, closes, pc, work>>

NextSave ==
    \/ \E chosen \in {"a.edf", "b.edf"} : OnOpenFile(chosen)
    \/ OnEnableSelectionMode
    \/ OnUndoAnnotation
    \/ \E i \in 1..Len(annotation_items) : OnDeleteAnnotation(i)
    \/ OnSaveAnnotations

SpecSave == InitApp /\ [][NextSave]_vars

---------------------------------------------------------------------------
(* Changing the montage and the filter while looking at a recording *)

OnSetMontage(montage) ==
    /\ LET handled(app) == SetApp(app) /\ app_last' = Handler("set_montage", app)
       IN  handled(set_montage(App, montage))
    /\ UNCHANGED <<last, observerVars, rowVars, catalogVars, open_handles, closes, pc, work>>

OnSetFilter(filter) ==
    /\ LET handled(app) == SetApp(app) /\ app_last' = Handler("set_filter", app)
       IN  handled(set_filter(App, filter))
    /\ UNCHANGED <<last, observerVars, rowVars, catalogVars, open_handles, closes, pc, work>>

OnGotoTime(time) ==
    /\ LET handled(app) == SetApp(app) /\ app_last' = Handler("goto_time", app)
       IN  handled(goto_time(App, time))
    /\ UNCHANGED <<last, observerVars, rowVars, catalogVars, open_handles, closes, pc, work>>

NextSettings ==
    \/ \E chosen \in Choices : OnOpenFile(chosen)
    \/ \E montage \in DOMAIN montages : OnSetMontage(montage)
    \/ \E filter \in {NoFilter, BandFilter} : OnSetFilter(filter)
    \/ \E time \in 0..MaxStart : OnGotoTime(time)

SpecSettings == InitApp /\ [][NextSettings]_vars

---------------------------------------------------------------------------
(* The buffer margin: the same requests made with different buffer_seconds *)

\* The largest buffer_seconds asked for.
MaxBuffer == 2

\* get_window(start_time, 2, 'AVERAGE', (None, None), buffer_seconds=buffer);
\* work keeps the arguments of the call.
GetWindowBuffer(start_time, buffer) ==
    /\ calls < MaxCalls
    /\ calls' = calls + 1
    /\ GetWindow(start_time, 2, AVERAGE, NoFilter, buffer, FALSE, FALSE)
    /\ work' = [NoWork EXCEPT !.key = cache_key(start_time, 2, AVERAGE, NoFilter),
                              !.buffer = buffer]
    /\ UNCHANGED <<lastAccess, firstIn, history, rowVars, catalogVars, appVars,
                   open_handles, closes, pc, app_last>>

NextBuffer ==
    \/ \E f \in EdfFiles : OpenEdf(f) /\ UNCHANGED <<observerVars, rowVars, catalogVars, appVars, traceVars>>
    \/ \E start_time \in {0, 1}, buffer \in 0..MaxBuffer : GetWindowBuffer(start_time, buffer)
    \/ ClearCache /\ UNCHANGED <<observerVars, rowVars, catalogVars, appVars, traceVars>>
    \/ Close /\ UNCHANGED <<observerVars, rowVars, catalogVars, appVars, traceVars>>

SpecBuffer == Init /\ [][NextBuffer]_vars

---------------------------------------------------------------------------
(* Constructing the montage catalog from a directory of definition files *)

\* The files in the directory, at most.
MaxMontageFiles == 3

\* A directory of at most MaxMontageFiles definition files, named in lower
\* or upper case with "_" or " " between the words, each with one of two
\* contents.
InitCatalog ==
    LET names == {[words |-> w, sep |-> "_"] :
                     w \in {<<"average">>, <<"AVERAGE">>, <<"bipolar", "banana">>,
                            <<"BIPOLAR", "BANANA">>}}
                 \cup {[words |-> <<"bipolar", "banana">>, sep |-> " "]}
        listed == {d \in SUBSET names : Cardinality(d) <= MaxMontageFiles}
    IN  /\ filename = NewStreamer.filename
        /\ raw_handle = NewStreamer.raw_handle
        /\ metadata = NewStreamer.metadata
        /\ window_cache = NewStreamer.window_cache
        /\ last = NoCall
        /\ lastAccess = {}
        /\ firstIn = NoKey
        /\ history = <<>>
        /\ calls = 0
        /\ NoRows
        /\ open_handles = <<>>
        /\ closes = 0
        /\ pc = "idle"
        /\ work = NoWork
        /\ app_last = NoHandler
        /\ AppIs(NewApp)
        /\ montage_dir \in UNION {[d -> {"one", "other"}] : d \in listed}
        /\ catalog = NoCatalog

\* montage_manager = MontageManager(), os.scandir yielding the files in any order
NextCatalog ==
    /\ ~catalog.built
    /\ \E scandir \in [1..Cardinality(DOMAIN montage_dir) -> DOMAIN montage_dir] :
          /\ \A n \in DOMAIN montage_dir : \E i \in DOMAIN scandir : scandir[i] = n
          /\ catalog' = MontageManager(montage_dir, scandir)
    /\ UNCHANGED <<filename, raw_handle, metadata, window_cache, last, observerVars,
                   rowVars, appVars, traceVars, montage_dir>>

SpecCatalog == InitCatalog /\ [][NextCatalog]_vars

---------------------------------------------------------------------------
(* Saving a set of annotations made in the window and loading it back *)

\* The most annotations in a set that is saved.
MaxSetSize == 2

\* The widget holds up to MaxSetSize annotations in the order they were made,
\* each with a channel list (the empty one included), and no file exists.
InitRoundTrip ==
    LET lists == {<<>>, <<"Fp1">>, <<"Fp1", "F7">>, <<"F7", "Fp1">>}
        data == {[channels |-> l, start_time |-> t0, stop_time |-> t1, onset |-> o] :
                    l \in lists, t0 \in RowStarts, t1 \in RowStops, o \in Onsets}
        made == UNION {[1..n -> data] : n \in 0..MaxSetSize}
    IN  /\ filename = NewStreamer.filename
        /\ raw_handle = NewStreamer.raw_handle
        /\ metadata = NewStreamer.metadata
        /\ window_cache = NewStreamer.window_cache
        /\ last = NoCall
        /\ lastAccess = {}
        /\ firstIn = NoKey
        /\ history = <<>>
        /\ calls = 0
        /\ rows = <<>>
        /\ merged_annotations = <<>>
        /\ csv_rows = <<>>
        /\ phase = "made"
        /\ NoTrace
        /\ \E items \in made : AppIs([NewApp EXCEPT !.annotation_items = items])

\* save_annotations: the rows of get_annotations() are written; nothing is
\* written when there is no annotation.
SaveAnnotationSet ==
    /\ phase = "made"
    /\ IF Len(annotation_items) = 0
       THEN /\ phase' = "nothing to save"
            /\ UNCHANGED csv_rows
       ELSE /\ phase' = "saved"
            /\ csv_rows' = expand(annotation_items)
    /\ UNCHANGED <<rows, merged_annotations>>

\* load_annotations: the records of the file written are read, sorted and
\* merged; nothing is loaded when no file was written.
LoadSavedRows ==
    /\ phase \in {"saved", "nothing to save"}
    /\ rows' = csv_rows
    /\ merged_annotations' = IF phase = "saved" THEN consolidate(csv_rows) ELSE <<>>
    /\ phase' = "reloaded"
    /\ UNCHANGED csv_rows

NextRoundTrip ==
    \/ SaveAnnotationSet /\ UNCHANGED <<filename, raw_handle, metadata, window_cache, last, observerVars, appVars, traceVars, catalogVars>>
    \/ LoadSavedRows /\ UNCHANGED <<filename, raw_handle, metadata, window_cache, last, observerVars, appVars, traceVars, catalogVars>>

SpecRoundTrip == InitRoundTrip /\ [][NextRoundTrip]_vars

---------------------------------------------------------------------------
(* Moving the view, rescaling and annotating while looking at a recording *)

\* A behaviour of SpecView creates annotations while fewer than MaxLabels exist.
MaxLabels == 2

\* _set_x_range_and_update: the range is set with on_view_range_changed held
\* off, then the plot is updated directly.
set_x_range_and_update(app, x_min, x_max) ==
    update_plot([app EXCEPT !.view_x = <<x_min, x_max>>,
                            !.last_view_range = <<Max(0, x_min), x_max - x_min>>],
                Max(0, x_min), x_max - x_min).app

\* pan_left, pan_amount being config.pan_ammount
pan_left(app, pan_amount) ==
    set_x_range_and_update(app, Max(0, app.view_x[1] - pan_amount),
                           Max(app.window_duration, app.view_x[2] - pan_amount))

\* pan_right
pan_right(app, pan_amount) ==
    set_x_range_and_update(app,
        Min(app.signal_duration - app.window_duration, app.view_x[1] + pan_amount),
        Min(app.signal_duration, app.view_x[2] + pan_amount))

\* change_window_duration(duration)
change_window_duration(app, duration) ==
    set_x_range_and_update([app EXCEPT !.window_duration = duration],
                           app.view_x[1], app.view_x[1] + duration)

\* set_scale_factor: update_y_axis sets the Y range when there are channels,
\* which emits sigRangeChanged when the scale is another one (rescaled); the
\* view is fetched again as it is, and the annotations are rendered from the
\* data of the items.  An exception of update_plot ends the handler.
set_scale_factor(app, rescaled) ==
    LET pairs(a) == [i \in 1..Len(a.annotation_items) |->
                        [data |-> a.annotation_items[i], origin |-> a.origins[i]]]
        kept(a) == SelectSeq(pairs(a), LAMBDA p :
                       render_annotations(a, <<p.data>>, p.origin).annotation_items # <<>>)
        rendered(a, k) ==
            [a EXCEPT !.annotation_items = [i \in 1..Len(k) |-> k[i].data],
                      !.origins = [i \in 1..Len(k) |-> k[i].origin]]
        updated(r) == IF r.exc # None THEN r.app ELSE rendered(r.app, kept(r.app))
        fetch(a) == updated(update_plot(a, a.view_x[1], a.view_x[2] - a.view_x[1]))
    IN  fetch(IF Len(app.montage_list) > 0 /\ rescaled
              THEN on_view_range_changed([app EXCEPT !.view_y = <<-1, Len(app.montage_list)>>])
              ELSE app)

\* Ctrl+L or the Label button
OnLabel ==
    /\ Len(annotation_items) < MaxLabels
    /\ SetApp(enable_selection_mode(App))
    /\ app_last' = Handler("enable_selection_mode", App)
    /\ UNCHANGED <<last, observerVars, rowVars, catalogVars, open_handles, closes, pc, work>>

\* the key A
OnPanLeft(pan_amount) ==
    /\ LET handled(app) == SetApp(app) /\ app_last' = Handler("pan_left", app)
       IN  handled(pan_left(App, pan_amount))
    /\ UNCHANGED <<last, observerVars, rowVars, catalogVars, open_handles, closes, pc, work>>

\* the key D
OnPanRight(pan_amount) ==
    /\ LET handled(app) == SetApp(app) /\ app_last' = Handler("pan_right", app)
       IN  handled(pan_right(App, pan_amount))
    /\ UNCHANGED <<last, observerVars, rowVars, catalogVars, open_handles, closes, pc, work>>

\* the slot of spinner_value_changed
OnChangeWindowDuration(duration) ==
    /\ LET handled(app) == SetApp(app) /\ app_last' = Handler("change_window_duration", app)
       IN  handled(change_window_duration(App, duration))
    /\ UNCHANGED <<last, observerVars, rowVars, catalogVars, open_handles, closes, pc, work>>

\* EEGAnnotator.on_scale_changed: nothing happens while no file was chosen.
OnSetScaleFactor(rescaled) ==
    /\ LET handled(app) == SetApp(app) /\ app_last' = Handler("set_scale_factor", app)
       IN  handled(IF annotator_filename = None THEN App
                   ELSE set_scale_factor(App, rescaled))
    /\ UNCHANGED <<last, observerVars, rowVars, catalogVars, open_handles, closes, pc, work>>

NextView ==
    \/ \E chosen \in {"a.edf"} : OnOpenFile(chosen)
    \/ OnLabel
    \/ OnUndoAnnotation
    \/ \E i \in 1..Len(annotation_items) : OnDeleteAnnotation(i)
    \/ \E time \in {4} : OnGotoTime(time)
    \/ \E pan_amount \in {5} : OnPanLeft(pan_amount)
    \/ \E pan_amount \in {5} : OnPanRight(pan_amount)
    \/ \E duration \in {2} : OnChangeWindowDuration(duration)
    \/ \E rescaled \in BOOLEAN : OnSetScaleFactor(rescaled)

SpecView == InitApp /\ [][NextView]_vars

---------------------------------------------------------------------------
(* The window cache *)

\* C1: at the end of every operation the window cache holds at most
\* MAX_CACHE_SIZE entries.
C1_CacheBounded == Len(window_cache) <= MAX_CACHE_SIZE

\* a miss has just evicted an entry from a full cache
C1_Witness ==
    /\ last.op = "get_window"
    /\ last.evicted # NoKey
    /\ Len(window_cache) = MAX_CACHE_SIZE

\* the least recently accessed key, by the observer's ranks
LeastRecent(ranks) == {e.key : e \in {d \in ranks : \A c \in ranks : d.rank <= c.rank}}

\* C2: a miss that inserts into a full cache evicts the entry whose most
\* recent access (insertion or hit) is the oldest, and only that entry.
C2_EvictsLeastRecentlyUsed ==
    [][(last'.op = "get_window" /\ last'.outcome = "miss"
            /\ Len(window_cache) = MAX_CACHE_SIZE)
        => /\ {last'.evicted} = LeastRecent(lastAccess)
           /\ KeySet(window_cache) \ KeySet(window_cache') = LeastRecent(lastAccess)
           /\ Len(window_cache') = MAX_CACHE_SIZE]_vars

\* an eviction has just spared the key inserted first, which a hit had made
\* more recent than a key inserted after it
C2_Witness ==
    /\ last.op = "get_window"
    /\ last.evicted # NoKey
    /\ firstIn # NoKey
    /\ Contains(window_cache, firstIn)

\* C3: from an empty cache, after K > MAX_CACHE_SIZE requests on pairwise
\* distinct keys the cache holds exactly the MAX_CACHE_SIZE keys requested
\* last, and each overflowing insert removed one entry: the least recently
\* used key from before it.
C3_KeepsMostRecentKeys ==
    LET n == Len(history)
    IN  /\ n <= MAX_CACHE_SIZE => Keys(window_cache) = history /\ last.evicted = NoKey
        /\ n > MAX_CACHE_SIZE =>
             /\ Keys(window_cache) = SubSeq(history, n - MAX_CACHE_SIZE + 1, n)
             /\ last.evicted = history[n - MAX_CACHE_SIZE]

\* two inserts have overflowed the cache
C3_Witness == Len(history) = MAX_CACHE_SIZE + 2

C5_ClearForcesOneRead ==
    [][/\ last'.op = "clear_cache" => window_cache' = <<>>
       /\ (last'.op = "get_window" /\ last'.after_clear = 1)
            => /\ last'.outcome # "hit"
               /\ last'.reads = 1
               /\ last'.exc = None =>
                    last'.outcome = "miss" /\ Contains(window_cache', last'.key)
       /\ (last'.op = "get_window" /\ last'.after_clear = 2)
            => last'.outcome = "hit" /\ last'.reads = 0]_vars

\* a request was cached, dropped by clear_cache, read again and then hit
C5_Witness == last.after_clear = 2 /\ last.outcome = "hit"

\* C6: get_window with a montage name the catalog does not hold fails and
\* leaves the window cache as it was.
C6_UnknownMontageFails ==
    [][(last'.op = "get_window" /\ raw_handle # None
            /\ last'.key[3] \notin DOMAIN montages)
        => last'.exc # None /\ window_cache' = window_cache]_vars

\* C7: the range a get_window miss computes for the read lies within the
\* recording, 0 <= tmin <= tmax <= duration, and the request yields a window.
C7_RangeWithinRecording ==
    (last.op = "get_window" /\ last.outcome \in {"miss", "error"})
        => /\ 0 <= last.tmin
           /\ last.tmin <= last.tmax
           /\ last.tmax <= metadata.duration
           /\ last.exc = None

---------------------------------------------------------------------------
(* Annotation files *)

\* The multiset of the elements of a sequence.
BagOf(seq) == [x \in Range(seq) |-> Cardinality({i \in 1..Len(seq) : seq[i] = x})]

\* The (start_time, stop_time, onset) triple of a row or of an annotation.
Triple(a) == <<a.start_time, a.stop_time, a.onset>>

\* The channels of the rows of a file that carry a triple, in file order.
ChannelsOf(records, triple) ==
    LET carrying == SelectSeq(records, LAMBDA r : Triple(r) = triple)
    IN [i \in 1..Len(carrying) |-> carrying[i].channels]

\* C9: for a non-empty file, the rows written when the consolidated result
\* of loading it is saved are exactly the rows of the file, as a multiset.
C9_RoundTripKeepsRows ==
    (phase = "saved" /\ Len(rows) > 0) => BagOf(csv_rows) = BagOf(rows)

\* A file whose rows are out of order, two of them sharing a triple and one
\* row occurring twice, has been loaded and saved.
C9_Witness ==
    /\ phase = "saved"
    /\ Len(rows) = 3
    /\ rows[1] = rows[3]
    /\ key_less(rows[2], rows[1])
    /\ Len(merged_annotations) = 2

\* C10: whatever the order of the rows of the file, loading it gives exactly
\* one annotation per distinct triple of the rows, no two annotations with
\* the same triple, each with a non-empty channel list holding the channels
\* of all and only the rows with its triple (repeats kept), in ascending
\* order of the triple.
C10_OneAnnotationPerTriple ==
    phase = "loaded" =>
        LET n == Len(merged_annotations) IN
        /\ {Triple(merged_annotations[i]) : i \in 1..n} = {Triple(rows[j]) : j \in 1..Len(rows)}
        /\ \A i, j \in 1..n :
              i < j => key_less(merged_annotations[i], merged_annotations[j])
        /\ \A i \in 1..n :
              /\ Len(merged_annotations[i].channels) > 0
              /\ BagOf(merged_annotations[i].channels)
                    = BagOf(ChannelsOf(rows, Triple(merged_annotations[i])))

\* A file in which the rows of one triple are separated by a row of another
\* triple that sorts before them, and that repeats a channel, has been loaded.
C10_Witness ==
    /\ phase = "loaded"
    /\ Len(rows) = 3
    /\ Triple(rows[1]) = Triple(rows[3])
    /\ rows[1].channels = rows[3].channels
    /\ key_less(rows[2], rows[1])
    /\ Len(merged_annotations) = 2
    /\ Len(merged_annotations[2].channels) = 2

---------------------------------------------------------------------------
(* Annotations and the recording and montage they belong to *)

\* C8: the annotations held by the widget (what get_annotations returns and
\* save_annotations writes) that were created on or loaded for a recording
\* are all of the recording and montage now selected: none was created or
\* loaded under another recording or montage.
C8_AnnotationsOfCurrentPair ==
    \A i \in 1..Len(get_annotations(App)) :
        origins[i][1] # None => origins[i] = <<annotator_filename, state_montage>>

---------------------------------------------------------------------------
(* The transform pipeline *)

\* C14: a miss under a bipolar montage of the catalog whose anodes and
\* cathodes are all channels of the recording returns exactly the channels
\* the montage declares, in the order it declares them, each sample being
\* the anode's sample minus the cathode's; no channel of the recording that
\* is not declared as an output is left.
C14_BipolarYieldsDeclaredChannels ==
    (/\ last.op = "get_window" /\ last.outcome = "miss" /\ last.key[4] = NoFilter
     /\ startswith_BIPOLAR(last.key[3]) /\ last.key[3] \in DOMAIN montages)
    => LET config == montages[last.key[3]]
           w == last.ret
           n == w.tmax - w.tmin + 1
       IN  /\ \A i \in 1..Len(config) :
                 /\ InSeq(Recording(w.src).ch_names, config[i][2])
                 /\ InSeq(Recording(w.src).ch_names, config[i][3])
           /\ w.ch_names = [i \in 1..Len(config) |-> config[i][1]]
           /\ Len(w.data) = Len(config)
           /\ \A i \in 1..Len(config) :
                 w.data[i] = [j \in 1..n |-> RawSample(w.src, config[i][2], w.tmin + j - 1)
                                             - RawSample(w.src, config[i][3], w.tmin + j - 1)]
           /\ \A i \in 1..Len(Recording(w.src).ch_names) :
                 ~InSeq(w.ch_names, Recording(w.src).ch_names[i])

\* a window of a.edf has been computed under the double banana montage
C14_Witness ==
    /\ last.op = "get_window"
    /\ last.outcome = "miss"
    /\ last.key[3] = DOUBLE_BANANA
    /\ last.key[4] = NoFilter
    /\ last.ret.src = "a.edf"
    /\ Len(last.ret.ch_names) = 2
    /\ last.ret.tmax > last.ret.tmin

\* The samples tmin..tmax of every channel of the file, as read from it.
RawSamples(f, tmin, tmax) ==
    [i \in 1..Len(Recording(f).ch_names) |->
        [j \in 1..(tmax - tmin + 1) |-> RawSample(f, Recording(f).ch_names[i], tmin + j - 1)]]

\* C15: with both cutoffs unset the filter is not invoked (nothing it could
\* raise is logged) and the window is not filtered; under a montage that is
\* not bipolar the window returned by a miss then holds the channels of the
\* recording with exactly the samples read for the range.
C15_NoCutoffsNoFilter ==
    (last.op = "get_window" /\ last.outcome = "miss" /\ last.key[4] = NoFilter)
    => /\ "warning" \notin last.log
       /\ last.ret.filtered = NoFilter
       /\ ~startswith_BIPOLAR(last.key[3])
            => /\ last.ret.ch_names = Recording(last.ret.src).ch_names
               /\ last.ret.tmin = last.tmin /\ last.ret.tmax = last.tmax
               /\ last.ret.data = RawSamples(last.ret.src, last.tmin, last.tmax)

\* an unfiltered window of a.edf has been read under the AVERAGE montage
C15_Witness ==
    /\ last.op = "get_window"
    /\ last.outcome = "miss"
    /\ last.key[3] = AVERAGE
    /\ last.key[4] = NoFilter
    /\ last.ret.src = "a.edf"
    /\ last.ret.data[1] = <<110, 111, 112, 113, 114>>

\* C16: when the filter is invoked and raises, get_window does not fail: it
\* returns (and caches) the window as the montage step left it, not
\* filtered, and a warning is logged.
C16_FilterFailureDegrades ==
    (last.op = "get_window" /\ last.filter_raised)
    => /\ last.exc = None
       /\ last.outcome = "miss"
       /\ "warning" \in last.log
       /\ last.ret.filtered = NoFilter
       /\ last.ret = apply_montage(read_range(last.ret.src, last.tmin, last.tmax), last.key[3]).raw
       /\ Contains(window_cache, last.key)
       /\ Lookup(window_cache, last.key) = last.ret

\* the band filter has raised on a double banana window of a.edf
C16_Witness ==
    /\ last.op = "get_window"
    /\ last.filter_raised
    /\ last.key[3] = DOUBLE_BANANA
    /\ last.key[4] = BandFilter
    /\ last.ret.ch_names = <<"Fp1-F7", "F7-T3">>

MissesChannel(f, montage) ==
    /\ startswith_BIPOLAR(montage)
    /\ montage \in DOMAIN montages
    /\ \E i \in 1..Len(montages[montage]) :
          \/ ~InSeq(Recording(f).ch_names, montages[montage][i][2])
          \/ ~InSeq(Recording(f).ch_names, montages[montage][i][3])

\* C18: a get_window on an open recording under a bipolar montage that names
\* a channel the recording lacks raises and returns no window, and nothing
\* is cached under the request's key.
C18_MissingChannelFails ==
    [][(last'.op = "get_window" /\ raw_handle # None
            /\ MissesChannel(raw_handle, last'.key[3]))
        => /\ last'.exc = "RuntimeError"
           /\ last'.ret = NoWindow
           /\ ~Contains(window_cache', last'.key)
           /\ window_cache' = window_cache]_vars

\* the double banana montage has been asked for on b.edf, which has no T3,
\* after the range was read
C18_Witness ==
    /\ last.op = "get_window"
    /\ last.stage = "montage"
    /\ last.key[3] = DOUBLE_BANANA
    /\ raw_handle = "b.edf"
    /\ last.reads = 1

---------------------------------------------------------------------------
(* The handle of the recording *)

\* C19: at most one Raw object is open at any time, and none is open that
\* the streamer does not hold: open_edf closes the handle it replaces.
C19_AtMostOneHandleOpen ==
    /\ Len(open_handles) <= 1
    /\ (raw_handle = None => open_handles = <<>>)

\* C20: close() raises nothing and leaves the streamer closed, with the Raw
\* object it held closed, no cached window and no metadata; on a streamer
\* with no recording open it changes nothing, and a further close() would
\* change nothing.
C20_CloseIsIdempotent ==
    [][last'.op = "close"
        => /\ last'.exc = None
           /\ raw_handle' = None
           /\ window_cache' = <<>>
           /\ metadata' = NoMetadata
           /\ open_handles' = IF raw_handle # None THEN raw_close(open_handles)
                                                   ELSE open_handles
           /\ (raw_handle = None => Streamer' = Streamer)
           /\ close(Streamer') = Streamer'
           /\ (last.op = "close" => Streamer' = Streamer /\ open_handles' = open_handles)]_vars

\* a.edf was opened, windows of it were cached, and close() has been called
\* twice in a row
C20_Witness ==
    /\ last.op = "close"
    /\ closes = 2
    /\ filename = "a.edf"
    /\ open_handles = <<>>
    /\ raw_handle = None

---------------------------------------------------------------------------
(* The order of the statements of a miss *)

\* The window the call would return, computed in one piece.
WholeCall ==
    get_window(Streamer, work.key[1], work.key[2], work.key[3], work.key[4],
               work.buffer, FALSE, work.filter_raised)

\* C13: a miss reads the range, then applies the montage, then the filter,
\* then inserts: the filter is given the re-referenced window, the cache is
\* not assigned while a statement before the insertion is due, and what is
\* inserted is the window that was read, re-referenced and filtered.
C13_ReadMontageFilterInsert ==
    [][/\ pc = "montage" => work.done = <<"read">>
       /\ pc = "filter" =>
            /\ work.done = <<"read", "montage">>
            /\ work.window_data =
                  apply_montage(read_range(raw_handle, work.tmin, work.tmax), work.key[3]).raw
       /\ pc = "insert" => work.done = <<"read", "montage", "filter">>
       /\ pc \in {"read", "montage", "filter"} =>
            /\ window_cache' = window_cache
            /\ ~Contains(window_cache', work.key)
       /\ (pc = "insert" /\ pc' = "idle") =>
            /\ Contains(window_cache', work.key)
            /\ Lookup(window_cache', work.key) = WholeCall.ret
            /\ window_cache' = WholeCall.s.window_cache]_vars

\* a miss under the double banana montage and the band filter has run its
\* four statements and the window is cached
C13_Witness ==
    /\ pc = "idle"
    /\ work.done = <<"read", "montage", "filter", "insert">>
    /\ work.key[3] = DOUBLE_BANANA
    /\ work.key[4] = BandFilter
    /\ work.window_data.filtered = BandFilter
    /\ Contains(window_cache, work.key)

---------------------------------------------------------------------------
(* Saving the annotations *)

\* The annotation files of the recording and montage the window is on.
CurrentFiles ==
    {c \in csv_files : c.path = annotation_file_path(annotator_filename, state_montage)}

\* C11: right after a save made while the window's recording is open, the
\* annotation file of the current recording and montage holds exactly the
\* rows of the annotations in memory, one row per channel; no file stands
\* for no annotation.
C11_SaveWritesCurrentSet ==
    (app_last.op = "save_annotations" /\ raw_handle # None /\ annotator_filename = raw_handle)
        => IF CurrentFiles = {}
           THEN annotation_items = <<>>
           ELSE \A c \in CurrentFiles : c.rows = expand(annotation_items)

---------------------------------------------------------------------------
(* The settings of the windows on display *)

\* C12: while a recording is open, every window the last handler fetched
\* for display was computed with the application's montage and filter as
\* they are now, none with the settings of before a change.
C12_DisplayedWindowsHaveCurrentSettings ==
    raw_handle # None
        => \A k \in app_last.fetched : k[3] = state_montage /\ k[4] = state_filter

---------------------------------------------------------------------------
(* The buffer margin and the key *)

\* C21: a get_window whose (start_time, duration, montage, filter) is cached
\* is a hit whatever its buffer_seconds: it reads nothing and returns the
\* window stored under the key, with the margin it was read with.
C21_BufferNotInKey ==
    [][(last'.op = "get_window" /\ raw_handle # None
            /\ Contains(window_cache, last'.key))
        => /\ last'.outcome = "hit"
           /\ last'.exc = None
           /\ last'.reads = 0
           /\ \E i \in 1..Len(window_cache) :
                 /\ window_cache[i].key = last'.key
                 /\ last'.ret = window_cache[i].data]_vars

\* a hit whose buffer_seconds would have read another range than the one
\* the window returned was read with, the key not being the oldest cached
C21_Witness ==
    /\ last.op = "get_window"
    /\ last.outcome = "hit"
    /\ work.key = last.key
    /\ last.ret.tmax # window_tmax(metadata, last.key[1], last.key[2], work.buffer)
    /\ Len(window_cache) = 2

C23_EntriesImmutable ==
    [][/\ \A k \in KeySet(window_cache) \cap KeySet(window_cache') :
             Lookup(window_cache', k) = Lookup(window_cache, k)
       /\ \A k \in KeySet(window_cache) \ KeySet(window_cache') :
             \/ last'.op \in {"clear_cache", "open_edf", "close"}
             \/ last'.op = "get_window" /\ last'.outcome = "miss" /\ last'.evicted = k]_vars

\* a key cached with one margin has been asked for again with another
\* margin, and the window under it is still the one read first
C23_Witness ==
    /\ last.op = "get_window"
    /\ last.outcome = "hit"
    /\ work.key = last.key
    /\ Lookup(window_cache, last.key).tmax
          # window_tmax(metadata, last.key[1], last.key[2], work.buffer)
    /\ Lookup(window_cache, last.key).src = raw_handle

---------------------------------------------------------------------------
(* The montage catalog *)

\* C24: constructing the catalog from a directory in which two files derive
\* the same display name fails.
C24_CollidingNamesFail ==
    (/\ catalog.built
     /\ \E a, b \in DOMAIN montage_dir : a # b /\ montage_type(a) = montage_type(b))
        => catalog.exc # None

---------------------------------------------------------------------------
(* Montages that are not bipolar *)

\* C25: under a montage name that does not start with BIPOLAR the montage
\* statement hands on the window as read, logs nothing of the catalog, and
\* the window get_window returns has the channels of the recording, in
\* their order, with the samples read when no filter was applied.
C25_NonBipolarIsIdentity ==
    [][(pc \in {"montage", "insert"} /\ ~startswith_BIPOLAR(work.key[3]))
        => /\ pc = "montage" =>
                /\ pc' = "filter"
                /\ work'.window_data = read_range(raw_handle, work.tmin, work.tmax)
                /\ work'.window_data = work.window_data
                /\ work'.log = work.log
           /\ pc = "insert" =>
                /\ last'.ret.ch_names = Recording(raw_handle).ch_names
                /\ Len(last'.ret.data) = metadata.n_channels
                /\ "error" \notin last'.log
                /\ last'.ret.filtered = NoFilter =>
                      last'.ret = read_range(raw_handle, work.tmin, work.tmax)]_vars

\* a window asked for under LINKED EARS, a name the catalog lacks, has
\* passed the montage statement
C25_Witness ==
    /\ pc = "filter"
    /\ work.key[3] = <<"LINKED", "EARS">>
    /\ work.done = <<"read", "montage">>
    /\ work.window_data.ch_names = <<"Fp1", "F7", "T3">>

---------------------------------------------------------------------------
(* The streamer with no recording open *)

\* C26: a get_window made while no recording is open raises, reads nothing
\* and returns no window, and the cache is empty before and after it.
C26_ClosedStreamerRaises ==
    [][(last'.op = "get_window" /\ raw_handle = None)
        => /\ last'.exc = "RuntimeError"
           /\ last'.ret = NoWindow
           /\ last'.reads = 0
           /\ window_cache = <<>>
           /\ window_cache' = <<>>
           /\ raw_handle' = None]_vars

\* get_window after a.edf was opened and closed again
C26_Witness ==
    /\ last.op = "get_window"
    /\ last.outcome = "closed"
    /\ filename = "a.edf"
    /\ raw_handle = None

---------------------------------------------------------------------------
(* The file the main window names *)

\* C28: the main window's filename is the recording the streamer has open,
\* and it is unset while the streamer has none.
C28_FilenameIsOpenRecording == annotator_filename = raw_handle

---------------------------------------------------------------------------
(* Saving and loading back *)

\* C29: when the annotations of the set have non-empty channel lists and
\* pairwise distinct (start_time, stop_time, onset), saving the set and
\* loading what was saved gives the same annotations, each with its channel
\* list in the original order, in ascending order of the triple.
C29_SaveThenLoadKeepsSet ==
    (/\ phase = "reloaded"
     /\ \A i \in 1..Len(annotation_items) : annotation_items[i].channels # <<>>
     /\ \A i, j \in 1..Len(annotation_items) :
            i # j => Triple(annotation_items[i]) # Triple(annotation_items[j]))
    => /\ Len(merged_annotations) = Len(annotation_items)
       /\ Range(merged_annotations) = Range(annotation_items)
       /\ \A i, j \in 1..Len(merged_annotations) :
              i < j => key_less(merged_annotations[i], merged_annotations[j])

\* Two annotations made in descending order of the triple, the first with
\* its channels not in alphabetical order, were saved and loaded back.
C29_Witness ==
    /\ phase = "reloaded"
    /\ Len(annotation_items) = 2
    /\ key_less(annotation_items[2], annotation_items[1])
    /\ annotation_items[1].channels = <<"F7", "Fp1">>
    /\ annotation_items[2].channels = <<"Fp1", "F7">>
    /\ merged_annotations = <<annotation_items[2], annotation_items[1]>>

---------------------------------------------------------------------------
(* A window whose filter failed *)

\* C30: a miss whose filter raised stores the unfiltered window under the
\* key of the request, filter included; and while the cache holds an
\* unfiltered window under a key with a filter, a call with that key is a hit
\* that returns this window without reading the file or invoking the filter.
C30_FailedFilterIsCached ==
    [][/\ (calls' # calls /\ last'.filter_raised) =>
            /\ last'.outcome = "miss"
            /\ filter_requested(last'.key[4])
            /\ Contains(window_cache', last'.key)
            /\ Lookup(window_cache', last'.key) = last'.ret
            /\ last'.ret.filtered = NoFilter
       /\ \A i \in 1..Len(window_cache) :
            (/\ calls' # calls
             /\ last'.key = window_cache[i].key
             /\ filter_requested(window_cache[i].key[4])
             /\ window_cache[i].data.filtered = NoFilter) =>
                /\ last'.outcome = "hit"
                /\ last'.ret = window_cache[i].data
                /\ last'.reads = 0
                /\ ~last'.filter_raised
                /\ last'.log = {}
                /\ Contains(window_cache', last'.key)
                /\ Lookup(window_cache', last'.key) = window_cache[i].data]_vars

\* A request with a band filter was a hit on a window that is not filtered.
C30_Witness ==
    /\ last.op = "get_window"
    /\ last.outcome = "hit"
    /\ last.key[4] = BandFilter
    /\ last.ret.filtered = NoFilter
    /\ last.ret.src = raw_handle

---------------------------------------------------------------------------
(* The Undo button *)

\* C31: the Undo button is enabled exactly when the widget's annotation list
\* is not empty.
C31_UndoEnabledIffAnnotations == undo_enabled <=> Len(annotation_items) > 0

---------------------------------------------------------------------------
(* Undoing an annotation *)

\* C32: undo_annotation drops the last annotation of the list and leaves the
\* others as they are, in their order; on an empty list it leaves the list
\* empty and the Undo button disabled; it changes nothing else of the window,
\* the widget or the streamer.
C32_UndoDropsLast ==
    [][(app_last'.op = "undo_annotation" /\ app_last'.tick # app_last.tick) =>
          /\ IF annotation_items = <<>>
             THEN annotation_items' = <<>> /\ ~undo_enabled'
             ELSE /\ annotation_items' = SubSeq(annotation_items, 1, Len(annotation_items) - 1)
                  /\ undo_enabled' = (undo_enabled /\ Len(annotation_items) > 1)
          /\ UNCHANGED <<filename, raw_handle, metadata, window_cache, annotator_filename,
                         state_montage, state_filter, current_montage, current_filter,
                         montage_list, signal_duration, window_duration, view_x, view_y,
                         last_view_range, csv_files>>]_vars

\* An undo has left the older of two different annotations in place.
C32_Witness ==
    /\ app_last.op = "undo_annotation"
    /\ Len(annotation_items) = 1
    /\ undo_enabled
    /\ annotation_items[1].channels # <<>>
    /\ view_x[1] + 1 # annotation_items[1].start_time

---------------------------------------------------------------------------
(* Changing the scale *)

\* C33: set_scale_factor leaves the annotations of the widget as they are:
\* the same annotations in the same order.
C33_ScaleKeepsAnnotations ==
    [][(app_last'.op = "set_scale_factor" /\ app_last'.tick # app_last.tick) =>
          annotation_items' = annotation_items]_vars

---------------------------------------------------------------------------
(* The windows the widget asks for *)

\* C34: every window the widget has fetched in a handler starts within the
\* recording, 0 <= start_time <= signal_duration, and has a positive duration.
C34_RequestsWithinRecording ==
    \A k \in app_last.fetched :
        /\ 0 <= k[1]
        /\ k[1] <= signal_duration
        /\ k[2] > 0

---------------------------------------------------------------------------
(* The file behind a display name *)

\* C35: the catalog is built from every directory, and for every file of the
\* directory the display name derived from its name maps back to the name of
\* that file, so that the definition registered under the display name is the
\* content of the file.
C35_NameDesignatesItsFile ==
    catalog.built =>
        /\ catalog.exc = None
        /\ \A f \in DOMAIN montage_dir :
              /\ montage_filename(montage_type(f)) = f
              /\ catalog.montages[montage_type(f)] = montage_dir[f]

====
